---------------------------- MODULE Spec2Model ----------------------------
(***************************************************************************)
(* figsearch (src/main.c, lines 805-1606): one run of the program on one   *)
(* bitmap file.  The run loads the file (bmp_loader_load), then either     *)
(* validates it (cmd_validate_bitmap_file) or scans the loaded bitmap for  *)
(* the longest horizontal line, the longest vertical line or the largest   *)
(* square (cmd_execute_shape_search).                                      *)
(*                                                                         *)
(* The file is an input stream: the characters the program has asked for   *)
(* so far are `file`, the next one is chosen by the environment when the   *)
(* program reads it.  fopen and the malloc of the pixel buffer may fail.    *)
(*                                                                         *)
(* uint32_t: TLC's integers are 32-bit two's-complement, so a uint32_t is  *)
(* held by the integer with the same bit pattern.  +, - and * are then the *)
(* C operations, UINT32_MAX is -1, the conversion uint32_t -> int keeps    *)
(* the pattern, and only the unsigned comparisons differ from the signed   *)
(* ones (U32Lt, U32Ge).                                                    *)
(***************************************************************************)
EXTENDS Integers, Sequences, FiniteSets, TLC

(***************************************************************************)
(* Bounds of the model.                                                    *)
(***************************************************************************)
\* the largest width*height a file header declares
MaxArea == 9
\* the most whitespace characters in a file
MaxWs == 2

(***************************************************************************)
(* Constants of the program.                                               *)
(***************************************************************************)
ERR_NONE == "ERR_NONE"
ERR_ALLOCATION_FAILURE == "ERR_ALLOCATION_FAILURE"
ERR_INVALID_BITMAP_FILE == "ERR_INVALID_BITMAP_FILE"
ERR_INVALID_DIMENSION == "ERR_INVALID_DIMENSION"

PXL_FILLED == "1"
PXL_EMPTY == "0"

COORD_INVALID == -1

NULL == "NULL"
\* the address malloc returns for the bitmap data buffer
BUF == "BUF"
\* what fread/fscanf meet at the end of the file
EOF == "EOF"

\* the commands that take a bitmap file
Commands == {"TEST", "HLINE", "VLINE", "SQUARE"}

\* the characters a file of the model is made of
Chars == {"0", "1", "2", "3", "4", " ", "x"}

(***************************************************************************)
(* uint32_t comparisons on bit patterns.                                   *)
(***************************************************************************)
U32Lt(a, b) == IF (a < 0) = (b < 0) THEN a < b ELSE b < 0

U32Ge(a, b) == ~U32Lt(a, b)

U32Gt(a, b) == U32Lt(b, a)

\* the high and the low 16 bits of a uint32_t
U32Hi(a) == (a \div 65536) % 65536

U32Lo(a) == a % 65536

\* the uint32_t of the high half hi and the low half lo
U32Make(hi, lo) ==
    IF hi >= 32768 THEN (hi - 65536) * 65536 + lo ELSE hi * 65536 + lo

\* (uint32_t)(a - b) and (uint32_t)(a + b): the low 32 bits, half by half
U32Sub(a, b) ==
    LET lo == U32Lo(a) - U32Lo(b)
        hi == U32Hi(a) - U32Hi(b) - (IF lo < 0 THEN 1 ELSE 0)
    IN  U32Make(hi % 65536, lo % 65536)

U32Add(a, b) ==
    LET lo == U32Lo(a) + U32Lo(b)
        hi == U32Hi(a) + U32Hi(b) + lo \div 65536
    IN  U32Make(hi % 65536, lo % 65536)

\* (unsigned)(v * 10 + d): the low 32 bits of the sum, half by half
U32Mul10Add(v, d) ==
    LET lo == U32Lo(v) * 10 + d
        hi == U32Hi(v) * 10 + lo \div 65536
    IN  U32Make(hi % 65536, lo % 65536)

(***************************************************************************)
(* Error                                                                   *)
(***************************************************************************)
\* error_ctor whose calloc of the message fails
error_ctor_calloc_fails(code, fmt, args) ==
    [code |-> ERR_ALLOCATION_FAILURE, fmt |-> NULL, args |-> <<>>]

\* error_ctor: the error with its message, held as the format and the values
\* formatted into it.  The calloc of the message text is taken to succeed.
error_ctor(code, fmt, args) == [code |-> code, fmt |-> fmt, args |-> args]

error_none == [code |-> ERR_NONE, fmt |-> NULL, args |-> <<>>]

(***************************************************************************)
(* Characters                                                              *)
(***************************************************************************)
\* isspace: the space, the tab, the line feed, the carriage return
Whitespace == {" ", "\t", "\n", "\r"}

bmp_valid_whitespace(c) == c \in Whitespace

\* bmp_valid_pix that takes every digit for a pixel
bmp_valid_pix_digit(pxl) ==
    pxl \in {"0", "1", "2", "3", "4", "5", "6", "7", "8", "9"}


bmp_valid_pix(pxl) == pxl = PXL_FILLED \/ pxl = PXL_EMPTY

\* the decimal digits fscanf's %u conversion accepts, with their values
Digits == {"0", "1", "2", "3", "4", "5", "6", "7", "8", "9"}

DigitVal(c) ==
    CASE c = "0" -> 0 [] c = "1" -> 1 [] c = "2" -> 2 [] c = "3" -> 3
      [] c = "4" -> 4 [] c = "5" -> 5 [] c = "6" -> 6 [] c = "7" -> 7
      [] c = "8" -> 8 [] c = "9" -> 9

\* fscanf's %u (SCNu32) on the first n digits of a token of fewer than 20
\* digits: the C library converts into an unsigned long of 64 bits and stores
\* it through a uint32_t *, which keeps the low 32 bits
RECURSIVE ScanU32(_, _)
ScanU32(digits, n) ==
    IF n = 0 THEN 0
    ELSE U32Mul10Add(ScanU32(digits, n - 1), DigitVal(digits[n]))

(***************************************************************************)
(* Bitmap                                                                  *)
(***************************************************************************)
BitmapSize(w, h) == [width |-> w, height |-> h]

bmp_size_raw(dimension) == dimension.width * dimension.height

(***************************************************************************)
(* Point, ShapeGeometry                                                    *)
(***************************************************************************)
point_ctor(x, y) == [x |-> x, y |-> y]

point_invalid_ctor == [x |-> COORD_INVALID, y |-> COORD_INVALID]

\* point_is_invalid that takes 0 for the invalid coordinate
point_is_invalid_zero(p) == p.x = 0 \/ p.y = 0

point_is_invalid(p) == p.x = COORD_INVALID \/ p.y = COORD_INVALID

shape_geometry_ctor(start, end) == [start |-> start, end |-> end]

shape_geometry_invalid_ctor ==
    shape_geometry_ctor(point_invalid_ctor, point_invalid_ctor)

shape_geometry_is_invalid(shape) ==
    point_is_invalid(shape.start) \/ point_is_invalid(shape.end)

hline_length(line) == U32Add(U32Sub(line.end.x, line.start.x), 1)

vline_length(line) == U32Add(U32Sub(line.end.y, line.start.y), 1)

square_side_length(s) == U32Add(U32Sub(s.end.x, s.start.x), 1)

\* shape_geometry_cmp that returns a 16-bit int: the low half of the
\* difference, sign-extended
shape_geometry_cmp_short(lhs, rhs, lsize, rsize) ==
    LET length_delta == U32Sub(lsize, rsize)
        delta == IF length_delta # 0 THEN length_delta
                 ELSE IF lhs.start.y # rhs.start.y
                 THEN U32Sub(rhs.start.y, lhs.start.y)
                 ELSE U32Sub(rhs.start.x, lhs.start.x)
    IN  IF U32Lo(delta) >= 32768 THEN U32Lo(delta) - 65536 ELSE U32Lo(delta)

\* shape_geometry_cmp, with size_func applied by the caller: lsize and rsize
\* are size_func(lhs) and size_func(rhs).  The result is the int with the bit
\* pattern of the uint32_t difference.
shape_geometry_cmp(lhs, rhs, lsize, rsize) ==
    LET length_delta == U32Sub(lsize, rsize)
    IN  IF length_delta # 0 THEN length_delta
        ELSE IF lhs.start.y # rhs.start.y THEN U32Sub(rhs.start.y, lhs.start.y)
        ELSE U32Sub(rhs.start.x, lhs.start.x)

hline_cmp(lhs, rhs) ==
    shape_geometry_cmp(lhs, rhs, hline_length(lhs), hline_length(rhs))

\* vline_cmp that breaks a tie by the smaller column, then the smaller row
vline_cmp_col_first(lhs, rhs) ==
    LET length_delta == vline_length(lhs) - vline_length(rhs)
    IN  IF length_delta # 0 THEN length_delta
        ELSE IF lhs.start.x # rhs.start.x THEN rhs.start.x - lhs.start.x
        ELSE rhs.start.y - lhs.start.y


vline_cmp(lhs, rhs) ==
    shape_geometry_cmp(lhs, rhs, vline_length(lhs), vline_length(rhs))

square_cmp(lhs, rhs) ==
    shape_geometry_cmp(lhs, rhs, square_side_length(lhs), square_side_length(rhs))

\* shape_geometry_print that writes each point as column, row
shape_geometry_print_xy(shape) ==
    <<shape.start.x, shape.start.y, shape.end.x, shape.end.y>>

\* the line shape_geometry_print writes: row1 col1 row2 col2
shape_geometry_print(shape) ==
    <<shape.start.y, shape.start.x, shape.end.y, shape.end.x>>


(***************************************************************************)
(* State                                                                   *)
(***************************************************************************)
VARIABLES
    cmd,      \* UserCommand.action_type
    pc,       \* where the run is
    fp,       \* bmp_loader_load's FILE *file: "unset", NULL, "open", "closed"
    file,     \* the characters of the file the stream has handed out or peeked
    pos,      \* how many of them have been consumed
    ended,    \* the stream has met the end of the file after `file`
    scan,     \* the fscanf conversion in progress: digits read, their value
    size,     \* bmp_loader_load's BitmapSize size
    loader,   \* the BitmapLoader
    mem,      \* the pixels written to the buffer malloc returned
    buf,      \* that buffer: "none", "live", "freed", "freed twice"
    err,      \* the Error bmp_loader_load returned
    bmp,      \* cmd_execute_shape_search's Bitmap bmp
    sc,       \* the locals of the running scanner
    shape,    \* cmd_execute_shape_search's shape
    out,      \* the lines printed to stdout
    ret       \* the Error cmd_execute returned

vars == <<cmd, pc, fp, file, pos, ended, scan, size, loader, mem, buf, err,
          bmp, sc, shape, out, ret>>

stream == <<file, pos, ended>>
scanner == <<bmp, sc, shape>>

Bitmap0 == [dimensions |-> BitmapSize(0, 0), data |-> NULL]

bmp_loader_ctor(file_name) ==
    [staging |-> Bitmap0, file_name |-> file_name, size |-> 0]

Scan0 == [n |-> 0, v |-> 0]

Scanner0 ==
    [row |-> 0, col |-> 0, i |-> 0,
     max |-> shape_geometry_invalid_ctor, max_length |-> 0]

Init ==
    /\ cmd \in Commands
    /\ pc = "start"
    /\ fp = "unset"
    /\ file = <<>>
    /\ pos = 0
    /\ ended = FALSE
    /\ scan = Scan0
    /\ size = BitmapSize(0, 0)
    /\ loader = bmp_loader_ctor("file_name")
    /\ mem = <<>>
    /\ buf = "none"
    /\ err = error_none
    /\ bmp = Bitmap0
    /\ sc = Scanner0
    /\ shape = shape_geometry_invalid_ctor
    /\ out = <<>>
    /\ ret = error_none

(***************************************************************************)
(* The input stream                                                        *)
(***************************************************************************)
WsCount(text) == Cardinality({k \in 1..Len(text) : text[k] \in Whitespace})

\* what the next read of the stream can meet: the character already peeked,
\* the end of the file, or a character within the bounds of the model
NextChars ==
    IF pos < Len(file) THEN {file[pos + 1]}
    ELSE IF ended THEN {EOF}
    ELSE {EOF} \cup {c \in Chars : c \in Whitespace => WsCount(file) < MaxWs}

\* the stream after it has met c without consuming it
Peeked(c) ==
    /\ file' = IF pos < Len(file) \/ c = EOF THEN file ELSE Append(file, c)
    /\ ended' = (ended \/ (pos = Len(file) /\ c = EOF))

Consumed(c) == Peeked(c) /\ pos' = pos + 1

\* fclose and return: bmp_loader_load is over with error e
LoadReturns(e) ==
    /\ fp' = "closed"
    /\ err' = e
    /\ pc' = "load_ret"

(***************************************************************************)
(* bmp_loader_load                                                         *)
(***************************************************************************)
\* fopen: the file cannot be opened
OpenFails ==
    /\ pc = "start"
    /\ fp' = NULL
    /\ err' = error_ctor(ERR_INVALID_BITMAP_FILE, "Failed to open file", <<>>)
    /\ pc' = "load_ret"
    /\ UNCHANGED <<cmd, stream, scan, size, loader, mem, buf, scanner, out, ret>>

\* fopen: the file is open for reading
Open ==
    /\ pc = "start"
    /\ fp' = "open"
    /\ pc' = "height"
    /\ UNCHANGED <<cmd, stream, scan, size, loader, mem, buf, err, scanner, out, ret>>

\* the largest value the model lets the dimension being read take; the model
\* has no dimension written with leading zeros
DimCap == IF pc = "height" THEN MaxArea ELSE MaxArea \div size.height

\* bmp_loader_load_dimension, one character of fscanf's %u at a time: leading
\* whitespace is skipped, digits are taken, anything else ends the conversion
\* and stays in the stream
LoadDimensionSkip ==
    /\ pc \in {"height", "width"}
    /\ scan.n = 0
    /\ \E c \in NextChars : bmp_valid_whitespace(c) /\ Consumed(c)
    /\ UNCHANGED <<cmd, pc, fp, scan, size, loader, mem, buf, err, scanner, out, ret>>

LoadDimensionDigit ==
    /\ pc \in {"height", "width"}
    /\ \E c \in NextChars :
          /\ c \in Digits
          /\ scan.n > 0 => scan.v > 0
          /\ scan.v * 10 + DigitVal(c) <= DimCap
          /\ Consumed(c)
          /\ scan' = [n |-> scan.n + 1, v |-> scan.v * 10 + DigitVal(c)]
    /\ UNCHANGED <<cmd, pc, fp, size, loader, mem, buf, err, scanner, out, ret>>

\* the conversion ends with no digit read: fscanf does not return 1
LoadDimensionNotInt ==
    /\ pc \in {"height", "width"}
    /\ scan.n = 0
    /\ \E c \in NextChars :
          /\ ~bmp_valid_whitespace(c) /\ c \notin Digits
          /\ Peeked(c)
    /\ LoadReturns(error_ctor(ERR_INVALID_DIMENSION, "is not an int value", <<0>>))
    /\ UNCHANGED <<cmd, pos, scan, size, loader, mem, buf, scanner, out, ret>>

\* bmp_loader_load_size that tests the height against 0 and not the width
LoadDimensionEnd_height_only ==
    /\ pc \in {"height", "width"}
    /\ scan.n > 0
    /\ \E c \in NextChars : c \notin Digits /\ Peeked(c)
    /\ size' = IF pc = "height" THEN [size EXCEPT !.height = scan.v]
                                ELSE [size EXCEPT !.width = scan.v]
    /\ scan' = Scan0
    /\ IF scan.v = 0 /\ pc = "height"
       THEN LoadReturns(error_ctor(ERR_INVALID_DIMENSION,
                                   "Dimension size cannot be zero", <<>>))
       ELSE /\ pc' = IF pc = "height" THEN "width" ELSE "alloc"
            /\ UNCHANGED <<fp, err>>
    /\ UNCHANGED <<cmd, pos, loader, mem, buf, scanner, out, ret>>

\* the conversion ends after a digit: the dimension is stored, and checked
LoadDimensionEnd ==
    /\ pc \in {"height", "width"}
    /\ scan.n > 0
    /\ \E c \in NextChars : c \notin Digits /\ Peeked(c)
    /\ size' = IF pc = "height" THEN [size EXCEPT !.height = scan.v]
                                ELSE [size EXCEPT !.width = scan.v]
    /\ scan' = Scan0
    /\ IF scan.v = 0
       THEN LoadReturns(error_ctor(ERR_INVALID_DIMENSION,
                                   "Dimension size cannot be zero", <<>>))
       ELSE /\ pc' = IF pc = "height" THEN "width" ELSE "alloc"
            /\ UNCHANGED <<fp, err>>
    /\ UNCHANGED <<cmd, pos, loader, mem, buf, scanner, out, ret>>

\* dimension tokens that do not fit in 32 bits, written with the digits of
\* Chars: 21230023344130 = 4943 * 2^32 + 2 and 21230023344131
WideTokens ==
    { <<"2", "1", "2", "3", "0", "0", "2", "3", "3", "4", "4", "1", "3", "0">>,
      <<"2", "1", "2", "3", "0", "0", "2", "3", "3", "4", "4", "1", "3", "1">> }

\* bmp_loader_load_dimension on a token of WideTokens: fscanf takes its digits
\* and converts them; the standard leaves the stored value undefined, the C
\* library of a build with a 64-bit unsigned long stores the low 32 bits
\* (ScanU32).  The model keeps the files whose stored area is within MaxArea.
LoadDimensionWide ==
    /\ pc \in {"height", "width"}
    /\ scan.n = 0
    /\ pos = Len(file) /\ ~ended
    /\ \E t \in WideTokens :
          /\ ScanU32(t, Len(t)) <= DimCap
          /\ file' = file \o t
          /\ pos' = pos + Len(t)
          /\ scan' = [n |-> Len(t), v |-> ScanU32(t, Len(t))]
    /\ UNCHANGED <<cmd, pc, fp, ended, size, loader, mem, buf, err, scanner, out, ret>>

\* bmp_ctor: the dimensions are stored, malloc returns the buffer
BmpCtor ==
    /\ pc = "alloc"
    /\ loader' = [loader EXCEPT !.staging = [dimensions |-> size, data |-> BUF]]
    /\ buf' = "live"
    /\ mem' = <<>>
    /\ pc' = "read"
    /\ UNCHANGED <<cmd, fp, stream, scan, size, err, scanner, out, ret>>

\* bmp_loader_load that goes on to the character stream when bmp_ctor has
\* returned an error
BmpCtorFails_goes_on ==
    /\ pc = "alloc"
    /\ loader' = [loader EXCEPT !.staging = [dimensions |-> size, data |-> NULL]]
    /\ pc' = "read"
    /\ UNCHANGED <<cmd, fp, stream, scan, size, mem, buf, err, scanner, out, ret>>

\* bmp_ctor: the dimensions are stored, malloc returns NULL
BmpCtorFails ==
    /\ pc = "alloc"
    /\ loader' = [loader EXCEPT !.staging = [dimensions |-> size, data |-> NULL]]
    /\ LoadReturns(error_ctor(ERR_ALLOCATION_FAILURE,
                               "Failed to allocate bitmap data buffer", <<>>))
    /\ UNCHANGED <<cmd, stream, scan, size, mem, buf, scanner, out, ret>>

\* bmp_loader_add_pixel with > for >=: one pixel more than declared is stored
bmp_loader_add_pixel_fits_gt(l) == ~(l.size > bmp_size_raw(l.staging.dimensions))

\* bmp_loader_add_pixel without its test: every pixel is stored
bmp_loader_add_pixel_fits_always(l) == TRUE

\* bmp_loader_add_pixel: can the pixel be stored
bmp_loader_add_pixel_fits(l) == ~(l.size >= bmp_size_raw(l.staging.dimensions))

\* bmp_loader_ignore_whitespace, one character of the chunks at a time
IgnoreWhitespaceSkip ==
    /\ pc = "read"
    /\ \E c \in NextChars : c # EOF /\ bmp_valid_whitespace(c) /\ Consumed(c)
    /\ UNCHANGED <<cmd, pc, fp, scan, size, loader, mem, buf, err, scanner, out, ret>>

IgnoreWhitespacePixel ==
    /\ pc = "read"
    /\ \E c \in NextChars :
          /\ c # EOF /\ ~bmp_valid_whitespace(c) /\ bmp_valid_pix(c)
          /\ Consumed(c)
          /\ IF bmp_loader_add_pixel_fits(loader)
             THEN /\ mem' = Append(mem, c)
                  /\ loader' = [loader EXCEPT !.size = loader.size + 1]
                  /\ UNCHANGED <<pc, fp, err>>
             ELSE /\ LoadReturns(error_ctor(ERR_INVALID_BITMAP_FILE,
                         "The raw bitmap size does not match given dimensions",
                         <<>>))
                  /\ UNCHANGED <<mem, loader>>
    /\ UNCHANGED <<cmd, scan, size, buf, scanner, out, ret>>

IgnoreWhitespaceUnexpected ==
    /\ pc = "read"
    /\ \E c \in NextChars :
          /\ c # EOF /\ ~bmp_valid_whitespace(c) /\ ~bmp_valid_pix(c)
          /\ Consumed(c)
          /\ LoadReturns(error_ctor(ERR_INVALID_BITMAP_FILE,
                                     "Unexpected character encountered", <<c>>))
    /\ UNCHANGED <<cmd, scan, size, loader, mem, buf, scanner, out, ret>>

\* the test of the pixel count that only refuses too many pixels
bmp_loader_size_mismatch_gt(l) == l.size > bmp_size_raw(l.staging.dimensions)

\* bmp_loader_load: the test of the pixel count against the header
bmp_loader_size_mismatch(l) == l.size # bmp_size_raw(l.staging.dimensions)

\* feof: the file is exhausted, the pixel count is compared with the header
LoadCheckSize ==
    /\ pc = "read"
    /\ EOF \in NextChars
    /\ Peeked(EOF)
    /\ IF bmp_loader_size_mismatch(loader)
       THEN LoadReturns(error_ctor(ERR_INVALID_DIMENSION,
                "The number of pixels found is not the same as defined in the header size",
                <<loader.size, loader.staging.dimensions.height,
                  loader.staging.dimensions.width,
                  bmp_size_raw(loader.staging.dimensions)>>))
       ELSE LoadReturns(error_none)
    /\ UNCHANGED <<cmd, pos, scan, size, loader, mem, buf, scanner, out, ret>>

Load ==
    \/ OpenFails \/ Open
    \/ LoadDimensionSkip \/ LoadDimensionDigit
    \/ LoadDimensionNotInt \/ LoadDimensionEnd
    \/ BmpCtor \/ BmpCtorFails
    \/ IgnoreWhitespaceSkip \/ IgnoreWhitespacePixel
    \/ IgnoreWhitespaceUnexpected \/ LoadCheckSize

(***************************************************************************)
(* Line                                                                    *)
(***************************************************************************)
\* bmp_at that indexes the buffer column by column
bmp_at_column_major(b, row, col) == mem[col * b.dimensions.height + row + 1]

\* bmp_at: the pixel of row `row`, column `col` in the linear buffer
bmp_at(b, row, col) == mem[row * b.dimensions.width + col + 1]

\* the loop of line_find_hline without its test of the pixel: it runs to the
\* edge of the bitmap
hline_track_edge(b, y, x_track) == b.dimensions.width

\* the loop of line_find_hline: x_track when the loop ends
RECURSIVE hline_track(_, _, _)
hline_track(b, y, x_track) ==
    IF U32Lt(x_track, b.dimensions.width) /\ bmp_at(b, y, x_track) = PXL_FILLED
    THEN hline_track(b, y, x_track + 1)
    ELSE x_track

line_find_hline(b, begin) ==
    IF bmp_at(b, begin.y, begin.x) = PXL_FILLED
    THEN shape_geometry_ctor(begin,
             point_ctor(hline_track(b, begin.y, begin.x + 1) - 1, begin.y))
    ELSE shape_geometry_invalid_ctor

\* the loop of line_find_vline: y_track when the loop ends
RECURSIVE vline_track(_, _, _)
vline_track(b, x, y_track) ==
    IF U32Lt(y_track, b.dimensions.height) /\ bmp_at(b, y_track, x) = PXL_FILLED
    THEN vline_track(b, x, y_track + 1)
    ELSE y_track

line_find_vline(b, begin) ==
    IF bmp_at(b, begin.y, begin.x) = PXL_FILLED
    THEN shape_geometry_ctor(begin,
             point_ctor(begin.x, vline_track(b, begin.x, begin.y + 1) - 1))
    ELSE shape_geometry_invalid_ctor

\* the column bound one too low: the last column of a row starts no line
hline_col_bound_tight(b, max_length) == b.dimensions.width - max_length - 1

\* the column bound of line_find_longest_hline's inner loop
hline_col_bound(b, max_length) == b.dimensions.width - max_length

\* the row bound one too low: the last row starts no line
vline_row_bound_low(b, max_length) == b.dimensions.height - max_length - 1

\* the row bound of line_find_longest_vline's inner loop
vline_row_bound(b, max_length) == b.dimensions.height - max_length

\* hline_body without the comparison: every line found replaces max
hline_body_last(b, s) ==
    LET temp == line_find_hline(b, point_ctor(s.col, s.row))
    IN  IF shape_geometry_is_invalid(temp)
        THEN [s EXCEPT !.col = s.col + 1]
        ELSE [s EXCEPT !.col = temp.end.x + 1, !.max = temp,
                       !.max_length = hline_length(temp)]

\* hline_body that goes on at the column after the start of the line found,
\* not after its end
hline_body_next_column(b, s) ==
    LET temp == line_find_hline(b, point_ctor(s.col, s.row))
    IN  IF shape_geometry_is_invalid(temp)
        THEN [s EXCEPT !.col = s.col + 1]
        ELSE IF shape_geometry_is_invalid(s.max) \/ hline_cmp(s.max, temp) < 0
        THEN [s EXCEPT !.col = s.col + 1, !.max = temp,
                       !.max_length = hline_length(temp)]
        ELSE [s EXCEPT !.col = s.col + 1]

\* line_find_longest_hline: the body of the inner loop at (row, col), with its
\* col++
hline_body(b, s) ==
    LET temp == line_find_hline(b, point_ctor(s.col, s.row))
    IN  IF shape_geometry_is_invalid(temp)
        THEN [s EXCEPT !.col = s.col + 1]
        ELSE IF shape_geometry_is_invalid(s.max) \/ hline_cmp(s.max, temp) < 0
        THEN [s EXCEPT !.col = temp.end.x + 1, !.max = temp,
                       !.max_length = hline_length(temp)]
        ELSE [s EXCEPT !.col = temp.end.x + 1]

\* vline_body that resumes at the end of the line found, not after it
vline_body_no_advance(b, s) ==
    LET temp == line_find_vline(b, point_ctor(s.col, s.row))
    IN  IF shape_geometry_is_invalid(temp)
        THEN [s EXCEPT !.row = s.row + 1]
        ELSE IF shape_geometry_is_invalid(s.max) \/ vline_cmp(s.max, temp) < 0
        THEN [s EXCEPT !.row = temp.end.y, !.max = temp,
                       !.max_length = vline_length(temp)]
        ELSE [s EXCEPT !.row = temp.end.y]

\* vline_body that caches the length hline_length gives the line found
vline_body_hline_length(b, s) ==
    LET temp == line_find_vline(b, point_ctor(s.col, s.row))
    IN  IF shape_geometry_is_invalid(temp)
        THEN [s EXCEPT !.row = s.row + 1]
        ELSE IF shape_geometry_is_invalid(s.max) \/ vline_cmp(s.max, temp) < 0
        THEN [s EXCEPT !.row = temp.end.y + 1, !.max = temp,
                       !.max_length = hline_length(temp)]
        ELSE [s EXCEPT !.row = temp.end.y + 1]

\* line_find_longest_vline: the body of the inner loop at (row, col), with its
\* row++
vline_body(b, s) ==
    LET temp == line_find_vline(b, point_ctor(s.col, s.row))
    IN  IF shape_geometry_is_invalid(temp)
        THEN [s EXCEPT !.row = s.row + 1]
        ELSE IF shape_geometry_is_invalid(s.max) \/ vline_cmp(s.max, temp) < 0
        THEN [s EXCEPT !.row = temp.end.y + 1, !.max = temp,
                       !.max_length = vline_length(temp)]
        ELSE [s EXCEPT !.row = temp.end.y + 1]

(***************************************************************************)
(* Square                                                                  *)
(***************************************************************************)
\* square_found_valid_square that checks the right side only
square_found_valid_square_right(b, top_left, bottom_right) ==
    LET vline == line_find_vline(b, point_ctor(bottom_right.x, top_left.y))
    IN  U32Ge(vline.end.y, bottom_right.y)

\* square_found_valid_square that checks the bottom side only
square_found_valid_square_bottom(b, top_left, bottom_right) ==
    LET hline == line_find_hline(b, point_ctor(top_left.x, bottom_right.y))
    IN  U32Ge(hline.end.x, bottom_right.x)


square_found_valid_square(b, top_left, bottom_right) ==
    LET hline == line_find_hline(b, point_ctor(top_left.x, bottom_right.y))
        vline == line_find_vline(b, point_ctor(bottom_right.x, top_left.y))
    IN  U32Ge(hline.end.x, bottom_right.x) /\ U32Ge(vline.end.y, bottom_right.y)

\* square_set_max_square without the comparison: every square replaces max
square_set_max_square_last(s, rhs) ==
    [s EXCEPT !.max = rhs, !.max_length = square_side_length(rhs)]

\* square_set_max_square on the scanner's max and max_length
square_set_max_square(s, rhs) ==
    IF shape_geometry_is_invalid(s.max) \/ square_cmp(s.max, rhs) < 0
    THEN [s EXCEPT !.max = rhs, !.max_length = square_side_length(rhs)]
    ELSE s

\* the loop of square_move_along_orthogonals with its second test on the
\* diagonal pixel, not on the pixel of the anchor's column
RECURSIVE orthogonal_steps_diagonal(_, _, _)
orthogonal_steps_diagonal(b, top_left, k) ==
    IF U32Ge(top_left.x + k, b.dimensions.width)
       \/ bmp_at(b, top_left.y, top_left.x + k) = PXL_EMPTY
    THEN k
    ELSE IF U32Ge(top_left.y + k, b.dimensions.height)
            \/ bmp_at(b, top_left.y + k, top_left.x + k) = PXL_EMPTY
    THEN k
    ELSE orthogonal_steps_diagonal(b, top_left, k + 1)

\* the loop of square_move_along_orthogonals: how many steps it makes
RECURSIVE orthogonal_steps(_, _, _)
orthogonal_steps(b, top_left, k) ==
    IF U32Ge(top_left.x + k, b.dimensions.width)
       \/ bmp_at(b, top_left.y, top_left.x + k) = PXL_EMPTY
    THEN k
    ELSE IF U32Ge(top_left.y + k, b.dimensions.height)
            \/ bmp_at(b, top_left.y + k, top_left.x) = PXL_EMPTY
    THEN k
    ELSE orthogonal_steps(b, top_left, k + 1)

square_move_along_orthogonals(b, top_left) ==
    LET k == orthogonal_steps(b, top_left, 0)
    IN  point_ctor(top_left.x + k - 1, top_left.y + k - 1)

\* the loop of square_find_largest_square that checks each square inside the
\* orthogonals, from bottom_right towards top_left
RECURSIVE square_shrink(_, _, _, _)
square_shrink(b, s, top_left, bottom_right) ==
    IF ~U32Ge(bottom_right.x, top_left.x) THEN s
    ELSE IF square_found_valid_square(b, top_left, bottom_right)
    THEN square_set_max_square(s, shape_geometry_ctor(top_left, bottom_right))
    ELSE square_shrink(b, s, top_left,
                       point_ctor(bottom_right.x - 1, bottom_right.y - 1))

\* square_area_exhausted that leaves the anchor's own row out of the
\* remaining area
square_area_exhausted_below(b, max_length, row) ==
    LET remaining_area == (b.dimensions.height - row - 1) * b.dimensions.width
    IN  U32Ge(max_length * max_length, remaining_area)

\* the early return of square_find_largest_square at row `row`
square_area_exhausted(b, max_length, row) ==
    LET remaining_area == (b.dimensions.height - row) * b.dimensions.width
    IN  U32Ge(max_length * max_length, remaining_area)

\* square_too_small that also skips an anchor whose potential side equals the
\* current one
square_too_small_ge(max_length, expected_bottom_right, col) ==
    U32Ge(max_length, expected_bottom_right.x - col + 1)

\* the anchor's potential side is lower than the current one
square_too_small(max_length, expected_bottom_right, col) ==
    U32Gt(max_length, expected_bottom_right.x - col + 1)

\* square_find_largest_square: the body of the loop at a filled pixel (row, col)
\* that the early return has let through
square_body(b, s, row, col) ==
    LET top_left == point_ctor(col, row)
        expected_bottom_right == square_move_along_orthogonals(b, top_left)
    IN  IF square_too_small(s.max_length, expected_bottom_right, col) THEN s
        ELSE IF square_found_valid_square(b, top_left, expected_bottom_right)
        THEN square_set_max_square(s,
                 shape_geometry_ctor(top_left, expected_bottom_right))
        ELSE square_shrink(b, s, top_left, expected_bottom_right)

\* the loop of square_find_largest_square that checks each square inside the
\* orthogonals: the bottom_right corners it passes to
\* square_found_valid_square, in order
RECURSIVE square_shrink_candidates(_, _, _)
square_shrink_candidates(b, top_left, bottom_right) ==
    IF ~U32Ge(bottom_right.x, top_left.x) THEN <<>>
    ELSE IF square_found_valid_square(b, top_left, bottom_right)
    THEN <<bottom_right>>
    ELSE <<bottom_right>> \o
         square_shrink_candidates(b, top_left,
             point_ctor(bottom_right.x - 1, bottom_right.y - 1))

\* square_find_largest_square: the bottom_right corners the body of the loop
\* passes to square_found_valid_square at a filled pixel (row, col), in order;
\* the loop over the inner squares starts again at expected_bottom_right
square_body_candidates(b, s, row, col) ==
    LET top_left == point_ctor(col, row)
        expected_bottom_right == square_move_along_orthogonals(b, top_left)
    IN  IF square_too_small(s.max_length, expected_bottom_right, col) THEN <<>>
        ELSE IF square_found_valid_square(b, top_left, expected_bottom_right)
        THEN <<expected_bottom_right>>
        ELSE <<expected_bottom_right>> \o
             square_shrink_candidates(b, top_left, expected_bottom_right)

(***************************************************************************)
(* The pixels the scanners read: the <<row, col>> each call of bmp_at is   *)
(* given, in order                                                         *)
(***************************************************************************)
\* the loop of line_find_hline with its two tests in the other order: the
\* pixel is read before x_track is compared with the width
RECURSIVE hline_track_reads_pixel_first(_, _, _)
hline_track_reads_pixel_first(b, y, x_track) ==
    IF ~U32Lt(x_track, b.dimensions.width) THEN << <<y, x_track>> >>
    ELSE IF bmp_at(b, y, x_track) = PXL_FILLED
    THEN << <<y, x_track>> >> \o hline_track_reads_pixel_first(b, y, x_track + 1)
    ELSE << <<y, x_track>> >>

\* the loop of line_find_hline: && reads the pixel only when x_track is below
\* the width
RECURSIVE hline_track_reads(_, _, _)
hline_track_reads(b, y, x_track) ==
    IF ~U32Lt(x_track, b.dimensions.width) THEN <<>>
    ELSE IF bmp_at(b, y, x_track) = PXL_FILLED
    THEN << <<y, x_track>> >> \o hline_track_reads(b, y, x_track + 1)
    ELSE << <<y, x_track>> >>

line_find_hline_reads(b, begin) ==
    << <<begin.y, begin.x>> >> \o
    (IF bmp_at(b, begin.y, begin.x) = PXL_FILLED
     THEN hline_track_reads(b, begin.y, begin.x + 1)
     ELSE <<>>)

\* the loop of line_find_vline
RECURSIVE vline_track_reads(_, _, _)
vline_track_reads(b, x, y_track) ==
    IF ~U32Lt(y_track, b.dimensions.height) THEN <<>>
    ELSE IF bmp_at(b, y_track, x) = PXL_FILLED
    THEN << <<y_track, x>> >> \o vline_track_reads(b, x, y_track + 1)
    ELSE << <<y_track, x>> >>

line_find_vline_reads(b, begin) ==
    << <<begin.y, begin.x>> >> \o
    (IF bmp_at(b, begin.y, begin.x) = PXL_FILLED
     THEN vline_track_reads(b, begin.x, begin.y + 1)
     ELSE <<>>)

\* the loop of square_move_along_orthogonals from its k-th pass on
RECURSIVE orthogonal_reads(_, _, _)
orthogonal_reads(b, top_left, k) ==
    LET across == <<top_left.y, top_left.x + k>>
        down == <<top_left.y + k, top_left.x>>
    IN  IF U32Ge(top_left.x + k, b.dimensions.width) THEN <<>>
        ELSE IF bmp_at(b, top_left.y, top_left.x + k) = PXL_EMPTY
        THEN <<across>>
        ELSE IF U32Ge(top_left.y + k, b.dimensions.height) THEN <<across>>
        ELSE IF bmp_at(b, top_left.y + k, top_left.x) = PXL_EMPTY
        THEN <<across, down>>
        ELSE <<across, down>> \o orthogonal_reads(b, top_left, k + 1)

\* square_found_valid_square: both sides are searched before the comparison
square_found_valid_square_reads(b, top_left, bottom_right) ==
    line_find_hline_reads(b, point_ctor(top_left.x, bottom_right.y)) \o
    line_find_vline_reads(b, point_ctor(bottom_right.x, top_left.y))

\* the calls of square_found_valid_square on the corners of candidates
RECURSIVE square_candidates_reads(_, _, _)
square_candidates_reads(b, top_left, candidates) ==
    IF candidates = <<>> THEN <<>>
    ELSE square_found_valid_square_reads(b, top_left, Head(candidates)) \o
         square_candidates_reads(b, top_left, Tail(candidates))

\* square_find_largest_square: the body of the loop at a filled pixel
\* (row, col) that the early return has let through
square_body_reads(b, s, row, col) ==
    LET top_left == point_ctor(col, row)
    IN  orthogonal_reads(b, top_left, 0) \o
        square_candidates_reads(b, top_left,
            square_body_candidates(b, s, row, col))

\* the reads of HLineStep
HLineStepReads ==
    IF U32Lt(sc.row, bmp.dimensions.height)
       /\ U32Lt(sc.col, hline_col_bound(bmp, sc.max_length))
    THEN line_find_hline_reads(bmp, point_ctor(sc.col, sc.row))
    ELSE <<>>

\* the reads of VLineStep
VLineStepReads ==
    IF U32Lt(sc.col, bmp.dimensions.width)
       /\ U32Lt(sc.row, vline_row_bound(bmp, sc.max_length))
    THEN line_find_vline_reads(bmp, point_ctor(sc.col, sc.row))
    ELSE <<>>

\* the reads of SquareStep: bmp->data[i], then the body
SquareStepReads ==
    LET row == sc.i \div bmp.dimensions.width
        col == sc.i % bmp.dimensions.width
    IN  IF ~U32Lt(sc.i, bmp.dimensions.width * bmp.dimensions.height) THEN <<>>
        ELSE << <<row, col>> >> \o
             (IF mem[sc.i + 1] = PXL_EMPTY
                 \/ square_area_exhausted(bmp, sc.max_length, row)
              THEN <<>>
              ELSE square_body_reads(bmp, sc, row, col))

\* line_find_longest_hline from the scanner state s to its return: for every
\* pass of the inner loop, the line line_find_hline returned and the pixels it
\* read
RECURSIVE line_find_longest_hline_passes(_, _)
line_find_longest_hline_passes(b, s) ==
    IF ~U32Lt(s.row, b.dimensions.height) THEN <<>>
    ELSE IF ~U32Lt(s.col, hline_col_bound(b, s.max_length))
    THEN line_find_longest_hline_passes(b, [s EXCEPT !.row = s.row + 1, !.col = 0])
    ELSE <<[temp |-> line_find_hline(b, point_ctor(s.col, s.row)),
            reads |-> line_find_hline_reads(b, point_ctor(s.col, s.row))]>>
         \o line_find_longest_hline_passes(b, hline_body(b, s))

\* line_find_longest_vline from the scanner state s to its return
RECURSIVE line_find_longest_vline_passes(_, _)
line_find_longest_vline_passes(b, s) ==
    IF ~U32Lt(s.col, b.dimensions.width) THEN <<>>
    ELSE IF ~U32Lt(s.row, vline_row_bound(b, s.max_length))
    THEN line_find_longest_vline_passes(b, [s EXCEPT !.col = s.col + 1, !.row = 0])
    ELSE <<[temp |-> line_find_vline(b, point_ctor(s.col, s.row)),
            reads |-> line_find_vline_reads(b, point_ctor(s.col, s.row))]>>
         \o line_find_longest_vline_passes(b, vline_body(b, s))

(***************************************************************************)
(* Line, the snapshot without pruning (src/main.c, lines 372-466); its     *)
(* Line has the fields begin and end, begin is kept as start here, and its *)
(* line_find_hline and line_find_vline are those of the last snapshot      *)
(***************************************************************************)
\* line_cmp of the snapshot, with length_func applied by the caller
line_cmp_unpruned(lhs, rhs, llength, rlength) ==
    LET length_delta == U32Sub(llength, rlength)
    IN  IF length_delta # 0 THEN length_delta
        ELSE IF lhs.start.y # rhs.start.y THEN U32Sub(rhs.start.y, lhs.start.y)
        ELSE U32Sub(rhs.start.x, lhs.start.x)

\* line_find_longest_hline of the snapshot, from (row, col) on with max
RECURSIVE line_find_longest_hline_unpruned(_, _, _, _)
line_find_longest_hline_unpruned(b, max, row, col) ==
    IF ~U32Lt(row, b.dimensions.height) THEN max
    ELSE IF ~U32Lt(col, b.dimensions.width)
    THEN line_find_longest_hline_unpruned(b, max, row + 1, 0)
    ELSE LET temp == line_find_hline(b, point_ctor(col, row))
         IN  IF shape_geometry_is_invalid(temp)
             THEN line_find_longest_hline_unpruned(b, max, row, col + 1)
             ELSE line_find_longest_hline_unpruned(b,
                      IF shape_geometry_is_invalid(max)
                         \/ line_cmp_unpruned(max, temp, hline_length(max),
                                              hline_length(temp)) < 0
                      THEN temp ELSE max,
                      row, temp.end.x + 1)

\* line_find_longest_vline of the snapshot, from (row, col) on with max
RECURSIVE line_find_longest_vline_unpruned(_, _, _, _)
line_find_longest_vline_unpruned(b, max, row, col) ==
    IF ~U32Lt(col, b.dimensions.width) THEN max
    ELSE IF ~U32Lt(row, b.dimensions.height)
    THEN line_find_longest_vline_unpruned(b, max, 0, col + 1)
    ELSE LET temp == line_find_vline(b, point_ctor(col, row))
         IN  IF shape_geometry_is_invalid(temp)
             THEN line_find_longest_vline_unpruned(b, max, row + 1, col)
             ELSE line_find_longest_vline_unpruned(b,
                      IF shape_geometry_is_invalid(max)
                         \/ line_cmp_unpruned(max, temp, vline_length(max),
                                              vline_length(temp)) < 0
                      THEN temp ELSE max,
                      temp.end.y + 1, col)

(***************************************************************************)
(* Square, the snapshot without pruning (src/main.c, lines 472-585)        *)
(***************************************************************************)
\* square_cmp of the snapshot: the side delta, then the rows, then the columns
square_cmp_unpruned(s1, s2) ==
    LET square_side_delta == (s1.end.y - s1.start.y) - (s2.end.y - s2.start.y)
    IN  IF square_side_delta # 0 THEN square_side_delta
        ELSE IF s2.start.y # s1.start.y THEN s2.start.y - s1.start.y
        ELSE s2.start.x - s1.start.x

\* if (square_is_invalid(max) || square_cmp(max, temp) < 0) max = temp
square_max_unpruned(max, temp) ==
    IF shape_geometry_is_invalid(max) \/ square_cmp_unpruned(max, temp) < 0
    THEN temp ELSE max

\* the loop over the squares wrapped inside the orthogonal lines
RECURSIVE square_shrink_unpruned(_, _, _, _, _)
square_shrink_unpruned(b, max, top_left, x_track, y_track) ==
    IF ~U32Ge(x_track, top_left.x) THEN max
    ELSE LET hline == line_find_hline(b, point_ctor(top_left.x, y_track))
             vline == line_find_vline(b, point_ctor(x_track, top_left.y))
         IN  IF U32Ge(hline.end.x, x_track) /\ U32Ge(vline.end.y, y_track)
             THEN square_max_unpruned(max,
                      shape_geometry_ctor(top_left, point_ctor(x_track, y_track)))
             ELSE square_shrink_unpruned(b, max, top_left, x_track - 1, y_track - 1)

\* the body of the loops at a filled pixel (row, col): the search for the
\* largest orthogonal anchor, the check of the expected square, the shrinking
square_body_unpruned(b, max, row, col) ==
    LET top_left == point_ctor(col, row)
        k == orthogonal_steps(b, top_left, 0)
        x_track == col + k - 1
        y_track == row + k - 1
    IN  square_shrink_unpruned(b, max, top_left, x_track, y_track)

\* square_find_largest_square of the snapshot, from (row, col) on with max
RECURSIVE square_find_largest_square_unpruned(_, _, _, _)
square_find_largest_square_unpruned(b, max, row, col) ==
    IF ~U32Lt(row, b.dimensions.height) THEN max
    ELSE IF ~U32Lt(col, b.dimensions.width)
    THEN square_find_largest_square_unpruned(b, max, row + 1, 0)
    ELSE IF bmp_at(b, row, col) = PXL_EMPTY
    THEN square_find_largest_square_unpruned(b, max, row, col + 1)
    ELSE square_find_largest_square_unpruned(
             b, square_body_unpruned(b, max, row, col), row, col + 1)

(***************************************************************************)
(* Command                                                                 *)
(***************************************************************************)
\* free(p) on the bitmap data buffer
Free == IF buf = "live" THEN "freed" ELSE "freed twice"

\* bmp_loader_dtor that leaves the staging buffer allocated
bmp_loader_dtor_leak == UNCHANGED <<buf, loader>>

\* bmp_loader_dtor
bmp_loader_dtor ==
    IF loader.staging.data # NULL
    THEN /\ buf' = Free
         /\ loader' = [loader EXCEPT !.size = 0, !.file_name = NULL]
    ELSE UNCHANGED <<buf, loader>>

\* the locals of bmp_loader_load are gone once the caller has its result
LoadFrameGone ==
    /\ fp' = "unset"
    /\ file' = <<>>
    /\ pos' = 0
    /\ ended' = FALSE
    /\ scan' = Scan0
    /\ size' = BitmapSize(0, 0)

\* cmd_validate_bitmap_file that returns the error of the load
ValidateInvalid_load_error ==
    /\ pc = "load_ret" /\ cmd = "TEST"
    /\ err.code # ERR_NONE
    /\ bmp_loader_dtor
    /\ ret' = err
    /\ pc' = "done"
    /\ LoadFrameGone
    /\ UNCHANGED <<cmd, mem, err, scanner, out>>

\* cmd_validate_bitmap_file: the load failed
ValidateInvalid ==
    /\ pc = "load_ret" /\ cmd = "TEST"
    /\ err.code # ERR_NONE
    /\ err' = error_none
    /\ bmp_loader_dtor
    /\ ret' = error_ctor(ERR_INVALID_BITMAP_FILE, "Invalid", <<>>)
    /\ pc' = "done"
    /\ LoadFrameGone
    /\ UNCHANGED <<cmd, mem, scanner, out>>

\* cmd_validate_bitmap_file: the load succeeded
ValidateValid ==
    /\ pc = "load_ret" /\ cmd = "TEST"
    /\ err.code = ERR_NONE
    /\ out' = Append(out, "Valid")
    /\ bmp_loader_dtor
    /\ ret' = error_none
    /\ pc' = "done"
    /\ LoadFrameGone
    /\ UNCHANGED <<cmd, mem, err, scanner>>

\* cmd_execute_shape_search: the load failed
SearchLoadFailed ==
    /\ pc = "load_ret" /\ cmd # "TEST"
    /\ err.code # ERR_NONE
    /\ bmp_loader_dtor
    /\ ret' = err
    /\ pc' = "done"
    /\ LoadFrameGone
    /\ UNCHANGED <<cmd, mem, err, scanner, out>>

\* cmd_execute_shape_search that destroys the loader at the end of its block,
\* with a bmp_loader_get_bitmap that leaves the staging buffer in the loader
GetBitmap_loader_dtor ==
    /\ pc = "load_ret" /\ cmd # "TEST"
    /\ err.code = ERR_NONE
    /\ bmp' = loader.staging
    /\ bmp_loader_dtor
    /\ sc' = Scanner0
    /\ pc' = "scan"
    /\ LoadFrameGone
    /\ UNCHANGED <<cmd, mem, err, shape, out, ret>>

\* cmd_execute_shape_search: bmp_loader_get_bitmap, and the scanner is entered
GetBitmap ==
    /\ pc = "load_ret" /\ cmd # "TEST"
    /\ err.code = ERR_NONE
    /\ bmp' = loader.staging
    /\ loader' = [loader EXCEPT !.staging = Bitmap0]
    /\ sc' = Scanner0
    /\ pc' = "scan"
    /\ LoadFrameGone
    /\ UNCHANGED <<cmd, mem, buf, err, shape, out, ret>>

\* the scanner returns shape s
ScanReturns(s) ==
    /\ shape' = s
    /\ pc' = "print"
    /\ UNCHANGED sc

\* line_find_longest_hline: one test of the loops and one pass of the body
HLineStep ==
    /\ pc = "scan" /\ cmd = "HLINE"
    /\ IF ~U32Lt(sc.row, bmp.dimensions.height)
       THEN ScanReturns(sc.max)
       ELSE /\ sc' = IF ~U32Lt(sc.col, hline_col_bound(bmp, sc.max_length))
                     THEN [sc EXCEPT !.row = sc.row + 1, !.col = 0]
                     ELSE hline_body(bmp, sc)
            /\ UNCHANGED <<pc, shape>>
    /\ UNCHANGED <<cmd, fp, stream, scan, size, loader, mem, buf, err, bmp, out, ret>>

\* line_find_longest_vline: one test of the loops and one pass of the body
VLineStep ==
    /\ pc = "scan" /\ cmd = "VLINE"
    /\ IF ~U32Lt(sc.col, bmp.dimensions.width)
       THEN ScanReturns(sc.max)
       ELSE /\ sc' = IF ~U32Lt(sc.row, vline_row_bound(bmp, sc.max_length))
                     THEN [sc EXCEPT !.col = sc.col + 1, !.row = 0]
                     ELSE vline_body(bmp, sc)
            /\ UNCHANGED <<pc, shape>>
    /\ UNCHANGED <<cmd, fp, stream, scan, size, loader, mem, buf, err, bmp, out, ret>>

\* square_find_largest_square: one test of the loop and one pass of the body
SquareStep ==
    /\ pc = "scan" /\ cmd = "SQUARE"
    /\ LET row == sc.i \div bmp.dimensions.width
           col == sc.i % bmp.dimensions.width
       IN  IF ~U32Lt(sc.i, bmp.dimensions.width * bmp.dimensions.height)
           THEN ScanReturns(sc.max)
           ELSE IF mem[sc.i + 1] = PXL_EMPTY
           THEN /\ sc' = [sc EXCEPT !.i = sc.i + 1]
                /\ UNCHANGED <<pc, shape>>
           ELSE IF square_area_exhausted(bmp, sc.max_length, row)
           THEN ScanReturns(sc.max)
           ELSE /\ sc' = [square_body(bmp, sc, row, col) EXCEPT !.i = sc.i + 1]
                /\ UNCHANGED <<pc, shape>>
    /\ UNCHANGED <<cmd, fp, stream, scan, size, loader, mem, buf, err, bmp, out, ret>>

\* cmd_execute_shape_search: the result is printed
PrintResult ==
    /\ pc = "print"
    /\ out' = Append(out, IF shape_geometry_is_invalid(shape)
                          THEN "Not found"
                          ELSE shape_geometry_print(shape))
    /\ pc' = "dtor"
    /\ UNCHANGED <<cmd, fp, stream, scan, size, loader, mem, buf, err, scanner, ret>>

\* cmd_execute_shape_search: bmp_dtor, and the command returns
BmpDtor ==
    /\ pc = "dtor"
    /\ IF bmp.data # NULL
       THEN /\ buf' = Free
            /\ bmp' = [bmp EXCEPT !.dimensions = BitmapSize(0, 0)]
       ELSE UNCHANGED <<buf, bmp>>
    /\ ret' = error_none
    /\ pc' = "done"
    /\ UNCHANGED <<cmd, fp, stream, scan, size, loader, mem, err, sc, shape, out>>

Command ==
    \/ ValidateInvalid \/ ValidateValid
    \/ SearchLoadFailed \/ GetBitmap
    \/ HLineStep \/ VLineStep \/ SquareStep
    \/ PrintResult \/ BmpDtor

Next == Load \/ Command

Spec == Init /\ [][Next]_vars

\* the run on the files of Spec and on the files whose header holds a
\* dimension of WideTokens
NextOverflow == Next \/ LoadDimensionWide

SpecOverflow == Init /\ [][NextOverflow]_vars

\* the program is sequential: as long as it has a next statement, it runs it
SpecFair == Init /\ [][Next]_vars /\ WF_vars(Next)

(***************************************************************************)
(* shape_geometry_cmp on its own, over uint32_t values at the ends and in  *)
(* the middle of the range                                                 *)
(***************************************************************************)
\* start coordinates: 0, 1, 2^31 - 1, 2^31, 2^32 - 2
CmpCoords == {0, 1, 2147483647, -2147483647 - 1, -2}

\* lengths: 1, 2, 2^31 - 1, 2^31, 2^31 + 1
CmpLengths == {1, 2, 2147483647, -2147483647 - 1, -2147483647}

\* the shape of command c that starts at (x, y) with the length (side) n
CmpShape(c, x, y, n) ==
    LET far_x == U32Sub(U32Add(x, n), 1)
        far_y == U32Sub(U32Add(y, n), 1)
    IN  shape_geometry_ctor(point_ctor(x, y),
            point_ctor(IF c = "VLINE" THEN x ELSE far_x,
                       IF c = "HLINE" THEN y ELSE far_y))

CmpShapes(c) ==
    { s \in { CmpShape(c, x, y, n) : x \in CmpCoords, y \in CmpCoords,
                                     n \in CmpLengths } :
        ~shape_geometry_is_invalid(s) }

\* the comparison the scanner of command c makes
shape_cmp(c, lhs, rhs) ==
    CASE c = "HLINE" -> hline_cmp(lhs, rhs)
      [] c = "VLINE" -> vline_cmp(lhs, rhs)
      [] OTHER -> square_cmp(lhs, rhs)

\* a scanner holds max and has found temp (kept in shape)
InitCmp ==
    /\ cmd \in Commands \ {"TEST"}
    /\ pc = "cmp"
    /\ fp = "unset"
    /\ file = <<>>
    /\ pos = 0
    /\ ended = FALSE
    /\ scan = Scan0
    /\ size = BitmapSize(0, 0)
    /\ loader = bmp_loader_ctor("file_name")
    /\ mem = <<>>
    /\ buf = "none"
    /\ err = error_none
    /\ bmp = Bitmap0
    /\ \E lhs \in CmpShapes(cmd) : sc = [Scanner0 EXCEPT !.max = lhs]
    /\ shape \in CmpShapes(cmd)
    /\ out = <<>>
    /\ ret = error_none

\* the call shape_geometry_cmp(max, temp, size_func): the int it returns is
\* kept in sc.i
Compare ==
    /\ pc = "cmp"
    /\ sc' = [sc EXCEPT !.i = shape_cmp(cmd, sc.max, shape)]
    /\ pc' = "cmp_ret"
    /\ UNCHANGED <<cmd, fp, stream, scan, size, loader, mem, buf, err, bmp,
                   shape, out, ret>>

NextCmp == Compare

SpecCmp == InitCmp /\ [][NextCmp]_vars


(***************************************************************************)
(* Vocabulary of the claims: the file as text, the loaded grid, its runs   *)
(* and its bordered squares, each defined from the text or the pixels and  *)
(* not from the program's own scan.                                        *)
(***************************************************************************)
\* the first index from p on whose character is no whitespace
RECURSIVE AfterWs(_, _)
AfterWs(text, p) ==
    IF p <= Len(text) /\ text[p] \in Whitespace THEN AfterWs(text, p + 1) ELSE p

\* the first index from p on whose character is no digit
RECURSIVE AfterDigits(_, _)
AfterDigits(text, p) ==
    IF p <= Len(text) /\ text[p] \in Digits THEN AfterDigits(text, p + 1) ELSE p

\* the decimal value of text[a..b-1]
RECURSIVE Decimal(_, _, _)
Decimal(text, a, b) ==
    IF b <= a THEN 0 ELSE Decimal(text, a, b - 1) * 10 + DigitVal(text[b - 1])

\* the unsigned integer token of `text` from p on: whether there is one, its
\* value, and where the text goes on after it
Token(text, p) ==
    LET a == AfterWs(text, p)
        b == AfterDigits(text, a)
    IN  [ok |-> b > a, val |-> Decimal(text, a, b), next |-> b]

FileHeight(text) == Token(text, 1)
FileWidth(text) == Token(text, FileHeight(text).next)

\* both dimensions parse as integers greater than 0
HeaderOK(text) ==
    /\ FileHeight(text).ok /\ FileHeight(text).val > 0
    /\ FileWidth(text).ok /\ FileWidth(text).val > 0

FileArea(text) == FileHeight(text).val * FileWidth(text).val

\* the characters after the two dimensions
FileBody(text) == SubSeq(text, FileWidth(text).next, Len(text))

IsPixelChar(c) == c \in {"0", "1"}

\* the '0'/'1' characters after the two dimensions, in file order
FilePixels(text) == SelectSeq(FileBody(text), IsPixelChar)

BodyOK(text) ==
    LET body == FileBody(text)
    IN  \A k \in 1..Len(body) : body[k] \in Whitespace \cup {"0", "1"}

\* The file on disk is `file` followed by what the run has not read.  It can
\* be a well-formed file (dimensions that parse and are positive, only
\* whitespace, '0' and '1' after them, as many '0'/'1' as width*height) iff
\* what has been read is well-formed so far and, when the end of the file has
\* been met, complete.
CanBeWellFormed ==
    /\ HeaderOK(file)
    /\ BodyOK(file)
    /\ IF ended THEN Len(FilePixels(file)) = FileArea(file)
                ELSE Len(FilePixels(file)) <= FileArea(file)

\* malloc returned NULL in bmp_ctor
AllocFailed ==
    loader.staging.data = NULL /\ loader.staging.dimensions # BitmapSize(0, 0)

LoadSucceeded == err.code = ERR_NONE

\* the loaded grid, while cmd_execute_shape_search holds it
W == bmp.dimensions.width
H == bmp.dimensions.height
Rows == 0..(H - 1)
Cols == 0..(W - 1)

Filled(r, c) == r \in Rows /\ c \in Cols /\ mem[r * W + c + 1] = "1"

AnyFilled == \E r \in Rows, c \in Cols : Filled(r, c)

MemFilled == \E k \in 1..Len(mem) : mem[k] = "1"

Seg(x1, y1, x2, y2) == [start |-> [x |-> x1, y |-> y1], end |-> [x |-> x2, y |-> y2]]

\* the maximal contiguous filled runs of the rows, and of the columns
HRuns ==
    { Seg(c1, r, c2, r) : <<r, c1, c2>> \in
        { t \in Rows \X Cols \X Cols :
            /\ t[2] <= t[3]
            /\ \A c \in t[2]..t[3] : Filled(t[1], c)
            /\ ~Filled(t[1], t[2] - 1) /\ ~Filled(t[1], t[3] + 1) } }

VRuns ==
    { Seg(c, r1, c, r2) : <<c, r1, r2>> \in
        { t \in Cols \X Rows \X Rows :
            /\ t[2] <= t[3]
            /\ \A r \in t[2]..t[3] : Filled(r, t[1])
            /\ ~Filled(t[2] - 1, t[1]) /\ ~Filled(t[3] + 1, t[1]) } }

RunLen(l) == (l.end.x - l.start.x) + (l.end.y - l.start.y) + 1

\* a wins over b: greater length, then smaller start row, then smaller start
\* column
RowFirst(a, b, la, lb) ==
    \/ la > lb
    \/ la = lb /\ a.start.y < b.start.y
    \/ la = lb /\ a.start.y = b.start.y /\ a.start.x < b.start.x

\* a wins over b: greater length, then smaller column, then smaller start row
ColFirst(a, b, la, lb) ==
    \/ la > lb
    \/ la = lb /\ a.start.x < b.start.x
    \/ la = lb /\ a.start.x = b.start.x /\ a.start.y < b.start.y

\* the square of side k with top-left corner (r, c) lies in the grid and its
\* four border segments are filled
Bordered(r, c, k) ==
    /\ k >= 1 /\ r \in Rows /\ c \in Cols /\ r + k - 1 \in Rows /\ c + k - 1 \in Cols
    /\ \A d \in 0..(k - 1) :
          /\ Filled(r, c + d) /\ Filled(r + k - 1, c + d)
          /\ Filled(r + d, c) /\ Filled(r + d, c + k - 1)

Squares ==
    { Seg(t[2], t[1], t[2] + t[3] - 1, t[1] + t[3] - 1) : t \in
        { u \in Rows \X Cols \X (1..(IF W < H THEN W ELSE H)) :
            Bordered(u[1], u[2], u[3]) } }

Side(q) == q.end.x - q.start.x + 1

Scanned(c) == pc = "print" /\ cmd = c

\* the grid of height h and width w with the pixels px, row by row
GridIs(h, w, px) == bmp.dimensions = BitmapSize(w, h) /\ mem = px

(***************************************************************************)
(* C1                                                                      *)
(***************************************************************************)
\* C1 as stated: bmp_loader_load returns success exactly when the file can be
\* opened and is well-formed (both dimensions parse and are greater than 0,
\* every character after them is whitespace, '0' or '1', and the '0'/'1'
\* characters number width*height); after a successful load the stored pixel
\* count is width*height.
C1_LoadSucceedsIffWellFormed ==
    pc = "load_ret" =>
        /\ LoadSucceeded <=> (fp # NULL /\ CanBeWellFormed)
        /\ LoadSucceeded => loader.size = FileArea(file)

\* C1 amended: bmp_loader_load returns success exactly when the file can be
\* opened, is well-formed and the pixel buffer can be allocated; after a
\* successful load the stored pixel count is width*height and the stored
\* pixels are the file's '0'/'1' characters.
C1_LoadSucceedsIffWellFormedAndAllocated ==
    pc = "load_ret" =>
        /\ LoadSucceeded <=> (fp # NULL /\ CanBeWellFormed /\ ~AllocFailed)
        /\ LoadSucceeded =>
              /\ ended
              /\ loader.size = FileArea(file)
              /\ loader.size = Len(FilePixels(file))
              /\ loader.staging.dimensions =
                    BitmapSize(FileWidth(file).val, FileHeight(file).val)

\* a load that succeeded on a file of at least four pixels
C1_Witness == pc = "load_ret" /\ LoadSucceeded /\ loader.size >= 4

(***************************************************************************)
(* C2                                                                      *)
(***************************************************************************)
\* C2: on a grid with a filled pixel, longest_horizontal returns the unique
\* maximum of the horizontal runs under: greater length, then smaller row,
\* then smaller start column; no filled run of any row is longer.
C2_LongestHorizontalIsMaximum ==
    (Scanned("HLINE") /\ AnyFilled) =>
        /\ shape \in HRuns
        /\ \A r \in HRuns \ {shape} :
              RowFirst(shape, r, RunLen(shape), RunLen(r))
        /\ \A r \in HRuns : RunLen(r) <= RunLen(shape)

\* two runs of the greatest length, in one row or in two
C2_Witness ==
    /\ Scanned("HLINE")
    /\ \E r \in HRuns : r # shape /\ RunLen(r) = RunLen(shape) /\ RunLen(r) >= 2

(***************************************************************************)
(* C3                                                                      *)
(***************************************************************************)
\* C3: largest_square returns a bordered square of the largest side, and
\* among those the one with the smallest top-left row, then the smallest
\* top-left column; on the 3x3 grid 111, 101, 111 it prints 0 0 2 2.
C3_LargestSquareIsMaximum ==
    /\ (Scanned("SQUARE") /\ Squares # {}) =>
          /\ shape \in Squares
          /\ \A q \in Squares \ {shape} :
                RowFirst(shape, q, Side(shape), Side(q))
    /\ ( /\ cmd = "SQUARE" /\ pc = "dtor"
         /\ GridIs(3, 3, <<"1", "1", "1", "1", "0", "1", "1", "1", "1">>) )
       => out = << <<0, 0, 2, 2>> >>

\* a second bordered square of the largest side, of side 2 or more
C3_Witness ==
    /\ Scanned("SQUARE")
    /\ \E q \in Squares : q # shape /\ Side(q) = Side(shape) /\ Side(q) >= 2

(***************************************************************************)
(* C4                                                                      *)
(***************************************************************************)
\* C4: a square largest_square returns has its four border segments inside
\* the grid and filled, and end.x - start.x = end.y - start.y.
C4_SquareIsBordered ==
    (Scanned("SQUARE") /\ ~shape_geometry_is_invalid(shape)) =>
        /\ shape.end.x - shape.start.x = shape.end.y - shape.start.y
        /\ Bordered(shape.start.y, shape.start.x, shape.end.x - shape.start.x + 1)

\* a square of side 3 whose centre is empty
C4_Witness ==
    /\ Scanned("SQUARE")
    /\ Side(shape) = 3
    /\ ~Filled(shape.start.y + 1, shape.start.x + 1)

(***************************************************************************)
(* C5                                                                      *)
(***************************************************************************)
\* C5: on a grid with a filled pixel, longest_vertical returns a vertical line
\* whose length is the greatest length of a filled run of any column.
C5_LongestVerticalLength ==
    (Scanned("VLINE") /\ AnyFilled) =>
        /\ shape \in VRuns
        /\ \A r \in VRuns : RunLen(r) <= RunLen(shape)

\* the longest run ends in the last row and is not in the first column
C5_Witness ==
    /\ Scanned("VLINE")
    /\ H >= 3 /\ shape.end.y = H - 1 /\ shape.start.x > 0
    /\ RunLen(shape) >= 2

(***************************************************************************)
(* C6                                                                      *)
(***************************************************************************)
\* C6 as stated: among the vertical runs of the greatest length,
\* longest_vertical reports the one in the smaller column, and in one column
\* the one with the smaller start row.
C6_VerticalTieColumnFirst ==
    (Scanned("VLINE") /\ AnyFilled) =>
        \A r \in VRuns \ {shape} : ColFirst(shape, r, RunLen(shape), RunLen(r))

\* C6 amended: among the vertical runs of the greatest length,
\* longest_vertical reports the one with the smaller start row, and among
\* those that start in one row the one in the smaller column.
C6_VerticalTieRowFirst ==
    (Scanned("VLINE") /\ AnyFilled) =>
        /\ shape \in VRuns
        /\ \A r \in VRuns \ {shape} : RowFirst(shape, r, RunLen(shape), RunLen(r))

\* a run as long as the reported one, in a column to its left, starting lower
C6_Witness ==
    /\ Scanned("VLINE")
    /\ \E r \in VRuns :
          /\ RunLen(r) = RunLen(shape)
          /\ r.start.x < shape.start.x
          /\ r.start.y > shape.start.y

(***************************************************************************)
(* C7                                                                      *)
(***************************************************************************)
Scenario1 == GridIs(2, 3, <<"1", "1", "1", "0", "1", "0">>)

\* C7 as stated: on the bitmap of height 2 and width 3 with rows 111 and 010,
\* longest_horizontal prints 0 0 0 2 and longest_vertical prints 0 0 1 0.
C7_Scenario1AsStated ==
    (pc = "dtor" /\ Scenario1) =>
        /\ cmd = "HLINE" => out = << <<0, 0, 0, 2>> >>
        /\ cmd = "VLINE" => out = << <<0, 0, 1, 0>> >>

\* C7 amended: on that bitmap longest_horizontal prints 0 0 0 2 and
\* longest_vertical prints 0 1 1 1, the run of column 1, the only column with
\* two filled pixels.
C7_Scenario1 ==
    (pc = "dtor" /\ Scenario1) =>
        /\ cmd = "HLINE" => out = << <<0, 0, 0, 2>> >>
        /\ cmd = "VLINE" => out = << <<0, 1, 1, 1>> >>

\* longest_vertical has printed its line for that bitmap
C7_Witness == pc = "dtor" /\ Scenario1 /\ cmd = "VLINE" /\ Len(out) = 1

(***************************************************************************)
(* C8                                                                      *)
(***************************************************************************)
\* C8: each shape query prints Not found iff the loaded grid has no filled
\* pixel, and then still returns with no error; a grid with a filled pixel
\* yields a shape.
C8_NotFoundIffEmpty ==
    (pc = "done" /\ cmd \in {"HLINE", "VLINE", "SQUARE"} /\ LoadSucceeded) =>
        /\ ret = error_none
        /\ Len(out) = 1
        /\ (out[1] = "Not found") <=> ~MemFilled
        /\ MemFilled => out[1] \in Seq(Nat) /\ Len(out[1]) = 4

\* a query on a grid of several empty pixels
C8_Witness ==
    pc = "done" /\ cmd = "HLINE" /\ out = <<"Not found">> /\ Len(mem) >= 4

(***************************************************************************)
(* C9                                                                      *)
(***************************************************************************)
\* C9: a line longest_horizontal or longest_vertical returns lies in the grid
\* on one row (horizontal) or one column (vertical), every pixel from start
\* to end is filled, and the pixels just before start and just after end are
\* empty or outside the grid.
C9_LineIsMaximalRun ==
    /\ (Scanned("HLINE") /\ ~shape_geometry_is_invalid(shape)) =>
          /\ shape.start.y = shape.end.y /\ shape.start.x <= shape.end.x
          /\ \A c \in shape.start.x..shape.end.x : Filled(shape.start.y, c)
          /\ ~Filled(shape.start.y, shape.start.x - 1)
          /\ ~Filled(shape.start.y, shape.end.x + 1)
    /\ (Scanned("VLINE") /\ ~shape_geometry_is_invalid(shape)) =>
          /\ shape.start.x = shape.end.x /\ shape.start.y <= shape.end.y
          /\ \A r \in shape.start.y..shape.end.y : Filled(r, shape.start.x)
          /\ ~Filled(shape.start.y - 1, shape.start.x)
          /\ ~Filled(shape.end.y + 1, shape.start.x)

\* a horizontal line with an empty pixel on each side
C9_Witness ==
    /\ Scanned("HLINE")
    /\ ~shape_geometry_is_invalid(shape)
    /\ shape.start.x > 0 /\ shape.end.x < W - 1
    /\ shape.end.x > shape.start.x

(***************************************************************************)
(* C10                                                                     *)
(***************************************************************************)
\* the load has read a well-formed header, has its buffer, has met only
\* whitespace, '0' and '1', and the end of the file with too few pixels
TooFewPixels ==
    /\ pc = "load_ret" /\ fp # NULL /\ HeaderOK(file) /\ ~AllocFailed
    /\ BodyOK(file) /\ ended
    /\ Len(FilePixels(file)) < FileArea(file)

\* ... and a pixel more than the header declares
TooManyPixels ==
    /\ pc = "load_ret" /\ fp # NULL /\ HeaderOK(file) /\ ~AllocFailed
    /\ BodyOK(file)
    /\ Len(FilePixels(file)) > FileArea(file)

Scenario5 == file = <<"2", " ", "2", " ", "1", "1", "1">> /\ ended

Streamed == fp = "closed" /\ HeaderOK(file) /\ ~AllocFailed

\* the index in the body of its first character that is neither whitespace
\* nor '0' nor '1'; 0 when it has none
FirstUnexpected(body) ==
    LET bad == {k \in 1..Len(body) : body[k] \notin Whitespace \cup {"0", "1"}}
    IN  IF bad = {} THEN 0 ELSE CHOOSE k \in bad : \A j \in bad : k <= j

UnexpectedCharacter(c) ==
    [code |-> ERR_INVALID_BITMAP_FILE,
     fmt |-> "Unexpected character encountered", args |-> <<c>>]

Scenario4 ==
    /\ Len(file) >= 6
    /\ SubSeq(file, 1, 6) = <<"2", " ", "2", " ", "1", "x">>

FailedToken(text) ==
    IF FileHeight(text).ok /\ FileHeight(text).val > 0
    THEN FileWidth(text) ELSE FileHeight(text)

Cause ==
    IF fp = NULL THEN "open"
    ELSE IF ~FileHeight(file).ok \/ (FileHeight(file).val > 0 /\ ~FileWidth(file).ok)
    THEN "not an integer"
    ELSE IF ~HeaderOK(file) THEN "zero"
    ELSE IF AllocFailed THEN "allocation"
    ELSE IF ~BodyOK(file) THEN "unexpected character"
    ELSE IF Len(FilePixels(file)) > FileArea(file) THEN "too many pixels"
    ELSE IF ended /\ Len(FilePixels(file)) < FileArea(file) THEN "too few pixels"
    ELSE "none"

C14_FailedLoadReleases ==
    [][(pc = "load_ret" /\ err.code # ERR_NONE) =>
          /\ pc' = "done"
          /\ ret'.code # ERR_NONE
          /\ buf' = (IF loader.staging.data # NULL THEN "freed" ELSE "none")
          /\ bmp' = Bitmap0
          /\ sc' = Scanner0 /\ shape' = shape_geometry_invalid_ctor
          /\ out' = <<>>]_vars

\* a search query has returned the error of a load that had its buffer
C14_Witness ==
    /\ pc = "done" /\ cmd = "SQUARE" /\ ret.code = ERR_INVALID_DIMENSION
    /\ buf = "freed" /\ loader.staging.data = BUF /\ out = <<>>

(***************************************************************************)
(* C15                                                                     *)
(***************************************************************************)
\* C15: after a successful load the height is the first integer of the file
\* and the width the second, and for every k the pixel of the loaded bitmap at
\* row k div width, column k mod width is the k-th '0'/'1' character after
\* the dimensions (k from 0).
C15_RowMajorHeightFirst ==
    (pc = "load_ret" /\ LoadSucceeded) =>
        LET b == loader.staging
        IN  /\ b.dimensions.height = FileHeight(file).val
            /\ b.dimensions.width = FileWidth(file).val
            /\ \A k \in 0..(Len(FilePixels(file)) - 1) :
                  bmp_at(b, k \div b.dimensions.width, k % b.dimensions.width)
                      = FilePixels(file)[k + 1]

\* a loaded bitmap of 2 rows and 3 columns whose pixels are not all alike
C15_Witness ==
    /\ pc = "load_ret" /\ LoadSucceeded
    /\ FileHeight(file).val = 2 /\ FileWidth(file).val = 3
    /\ FilePixels(file) = <<"0", "1", "1", "0", "0", "1">>

(***************************************************************************)
(* C16                                                                     *)
(***************************************************************************)
InvalidFile == [code |-> ERR_INVALID_BITMAP_FILE, fmt |-> "Invalid", args |-> <<>>]

TokenDigits(text, p) ==
    SubSeq(text, AfterWs(text, p), AfterDigits(text, AfterWs(text, p)) - 1)

HeightDigits(text) == TokenDigits(text, 1)

WidthDigits(text) == TokenDigits(text, AfterDigits(text, AfterWs(text, 1)))

\* a decimal numeral without leading zero of more than 10 digits is at least
\* 10^10, which is more than 2^32
ExceedsU32(digits) == Len(digits) > 10 /\ digits[1] # "0"

\* the header declares a dimension beyond the unsigned 32-bit range, so that
\* width*height is beyond it too unless the other dimension is 0
DeclaredOverflow(text) ==
    /\ ExceedsU32(HeightDigits(text)) \/ ExceedsU32(WidthDigits(text))
    /\ HeightDigits(text) # <<"0">> /\ WidthDigits(text) # <<"0">>

\* C17 as stated: a file whose declared dimensions make width*height overflow
\* the unsigned 32-bit range is rejected at load time, so that no query
\* validates it or scans a grid for it.
C17_OverflowRejected ==
    (pc = "load_ret" /\ fp = "closed" /\ ended /\ DeclaredOverflow(file)) =>
        err.code # ERR_NONE

(***************************************************************************)
(* C18                                                                     *)
(***************************************************************************)
\* the anchors of the loaded grid: its filled pixels
Anchors == {p \in Rows \X Cols : Filled(p[1], p[2])}

\* C18: every scanner that is entered returns; and for every filled pixel of
\* the loaded grid, taken as anchor, the diagonal probe ends at or after the
\* anchor, on its diagonal, and the 1x1 candidate at the anchor verifies, so
\* that the shrinking loop breaks before its cursor is decremented below the
\* anchor's column; a pass of the body that is neither the early return nor
\* the skip of a candidate too small leaves a square in max.
C18_ScannersTerminate ==
    /\ (pc = "scan") ~> (pc = "print")
    /\ [](pc = "scan" =>
            \A p \in Anchors :
                LET top_left == point_ctor(p[2], p[1])
                    bottom_right == square_move_along_orthogonals(bmp, top_left)
                IN  /\ bottom_right.x >= top_left.x
                    /\ bottom_right.x - top_left.x = bottom_right.y - top_left.y
                    /\ bottom_right.x \in Cols /\ bottom_right.y \in Rows
                    /\ square_found_valid_square(bmp, top_left, top_left)
                    /\ ~shape_geometry_is_invalid(
                           square_body(bmp, Scanner0, p[1], p[2]).max))

\* the largest-square scanner has returned from a grid whose anchor in column
\* 0 has its full candidate refused: the shrinking loop has run
C18_Witness ==
    /\ Scanned("SQUARE")
    /\ Filled(0, 0)
    /\ LET bottom_right == square_move_along_orthogonals(bmp, point_ctor(0, 0))
       IN  /\ bottom_right.x >= 1
           /\ ~square_found_valid_square(bmp, point_ctor(0, 0), bottom_right)

(***************************************************************************)
(* C19                                                                     *)
(***************************************************************************)
\* the scanner has left by its early return: pixels are left unvisited
EarlyReturn == Scanned("SQUARE") /\ sc.i < W * H

\* C19: the square square_find_largest_square returns, with its early return
\* on max_length^2 >= remaining_area and its skip of the candidates too small,
\* is the square the scanner of the snapshot without pruning returns, which
\* visits every anchor.
C19_EarlyExitKeepsResult ==
    Scanned("SQUARE") =>
        shape = square_find_largest_square_unpruned(
                    bmp, shape_geometry_invalid_ctor, 0, 0)

\* the early return has left filled pixels unvisited
C19_Witness ==
    /\ EarlyReturn
    /\ \E k \in (sc.i + 1)..(W * H - 1) : mem[k + 1] = "1"
    /\ W >= 2 /\ H >= 2

(***************************************************************************)
(* C20                                                                     *)
(***************************************************************************)
\* the top segment and the left segment of side k from (r, c) are filled
TopLeftFilled(r, c, k) ==
    \A d \in 0..(k - 1) : Filled(r, c + d) /\ Filled(r + d, c)

\* the greatest k of ks that satisfies P; 0 when none does
Greatest(ks) == IF ks = {} THEN 0 ELSE CHOOSE k \in ks : \A j \in ks : j <= k

MaxSide == IF W < H THEN W ELSE H

\* the side of the largest bordered square with top-left corner (r, c)
LargestBorderedAt(r, c) == Greatest({k \in 1..MaxSide : Bordered(r, c, k)})

\* the square an anchor offers to the comparison: what the body of the loop
\* leaves in max when max was invalid
Candidate(r, c) == square_body(bmp, Scanner0, r, c).max

\* C20: for every filled pixel of the loaded grid, taken as anchor, the
\* diagonal probe ends at the largest side whose top and left segments are
\* filled, and the candidate the body offers is the largest bordered square
\* whose top-left corner is the anchor.
C20_CandidateIsLargestAtAnchor ==
    (cmd = "SQUARE" /\ pc \in {"scan", "print"}) =>
        \A p \in Anchors :
            LET top_left == point_ctor(p[2], p[1])
                probe == square_move_along_orthogonals(bmp, top_left)
            IN  /\ probe.x - top_left.x + 1 =
                      Greatest({k \in 1..MaxSide : TopLeftFilled(p[1], p[2], k)})
                /\ probe.y - top_left.y = probe.x - top_left.x
                /\ Candidate(p[1], p[2]) =
                      Seg(p[2], p[1], p[2] + LargestBorderedAt(p[1], p[2]) - 1,
                          p[1] + LargestBorderedAt(p[1], p[2]) - 1)

\* the scanner has returned the square of side 2 an anchor offered after its
\* candidate of side 3 had been refused
C20_Witness ==
    /\ Scanned("SQUARE")
    /\ W = 3 /\ H = 3
    /\ square_move_along_orthogonals(bmp, point_ctor(0, 0)) = point_ctor(2, 2)
    /\ shape = Seg(0, 0, 1, 1)
    /\ Candidate(0, 0) = shape

(***************************************************************************)
(* C21                                                                     *)
(***************************************************************************)
\* the next pass of square_find_largest_square's loop is at a filled pixel
\* that the early return lets through
AtAnchor ==
    /\ pc = "scan" /\ cmd = "SQUARE"
    /\ sc.i < W * H
    /\ mem[sc.i + 1] = PXL_FILLED
    /\ ~square_area_exhausted(bmp, sc.max_length, sc.i \div W)

AnchorRow == sc.i \div W
AnchorCol == sc.i % W

\* B.x - anchor.x + 1 for the anchor of the next pass
ProbeSide ==
    square_move_along_orthogonals(bmp, point_ctor(AnchorCol, AnchorRow)).x
        - AnchorCol + 1

\* the next pass runs no border verification and leaves the best square as
\* it is
AnchorSkipped ==
    /\ square_body_candidates(bmp, sc, AnchorRow, AnchorCol) = <<>>
    /\ square_body(bmp, sc, AnchorRow, AnchorCol) = sc

\* C21 as stated: an anchor whose diagonal-probe side is less than or equal to
\* the current best side is skipped, no border verification is run for it and
\* the best square is left unchanged.
C21_SkippedWhenNotGreater ==
    (AtAnchor /\ ProbeSide <= sc.max_length) => AnchorSkipped

\* C21: an anchor is skipped, with no border verification, exactly when its
\* diagonal-probe side is less than the current best side; an anchor whose
\* side equals the best side has its border verified, and for every anchor
\* whose side is less than or equal to the best side the best square and its
\* cached side are left unchanged.
C21_SkippedWhenSmaller ==
    AtAnchor =>
        /\ ProbeSide < sc.max_length <=> AnchorSkipped
        /\ ProbeSide = sc.max_length =>
              Len(square_body_candidates(bmp, sc, AnchorRow, AnchorCol)) >= 1
        /\ ProbeSide <= sc.max_length =>
              square_body(bmp, sc, AnchorRow, AnchorCol) = sc

\* the next pass is at an anchor whose side equals a best side of 2, and at
\* one whose side is below it
C21_Witness ==
    /\ AtAnchor
    /\ sc.max_length = 2
    /\ ProbeSide = 2
    /\ \E i \in 1..(sc.i - 1) :
          /\ mem[i + 1] = PXL_FILLED
          /\ square_move_along_orthogonals(bmp, point_ctor(i % W, i \div W)).x
                 - (i % W) + 1 < 2

(***************************************************************************)
(* C22                                                                     *)
(***************************************************************************)
\* the pixels the next step of the running scanner reads
StepReads ==
    CASE cmd = "HLINE" -> HLineStepReads
      [] cmd = "VLINE" -> VLineStepReads
      [] cmd = "SQUARE" -> SquareStepReads
      [] OTHER -> <<>>

InGrid(reads) ==
    \A k \in 1..Len(reads) : reads[k][1] \in Rows /\ reads[k][2] \in Cols

\* C22: during any scanner run on a loaded grid, every pixel read uses a row
\* in [0, height) and a column in [0, width): the reads of the run extension,
\* of the diagonal probe and of the side verification, and the read of
\* data[i], and the buffer read is the live buffer of width*height pixels.
C22_ReadsInRange ==
    pc = "scan" =>
        /\ InGrid(StepReads)
        /\ buf = "live" /\ Len(mem) = W * H

\* the next pass of the largest-square scanner is at an anchor whose probe
\* ends in the last row and the last column: the sides verified are the last
\* row and the last column, and their run extensions stop at the edge
C22_Witness ==
    /\ AtAnchor
    /\ W >= 2
    /\ square_move_along_orthogonals(bmp, point_ctor(AnchorCol, AnchorRow))
           = point_ctor(W - 1, H - 1)
    /\ square_body_candidates(bmp, sc, AnchorRow, AnchorCol)
           = <<point_ctor(W - 1, H - 1)>>
    /\ \E k \in 1..Len(StepReads) : StepReads[k] = <<H - 1, W - 1>>

(***************************************************************************)
(* C23                                                                     *)
(***************************************************************************)
\* the loader holds the buffer bmp_ctor allocated, not yet released
Staged == loader.staging.data # NULL /\ buf = "live"

\* width*height of the staging bitmap
StagingArea == loader.staging.dimensions.width * loader.staging.dimensions.height

\* the step stores a pixel: data[size++] = c
StoresPixel == mem' # mem /\ pc = "read"

\* the step meets a pixel character while the buffer is full
PixelOnFullBuffer ==
    /\ pc = "read" /\ loader.size = StagingArea
    /\ pos' = pos + 1
    /\ file'[pos'] \in {PXL_FILLED, PXL_EMPTY}

\* C23: at every point of a load the number of stored pixels is the loader's
\* size and is at most width*height; every write goes to the index size,
\* which is below width*height, and stores the character read after the
\* pixels already stored; a pixel character that arrives when the buffer is
\* full is not stored and ends the load with ERR_INVALID_BITMAP_FILE.
C23_WritesStayInBuffer ==
    /\ [](Staged => Len(mem) = loader.size /\ loader.size <= StagingArea)
    /\ [][/\ StoresPixel =>
               /\ loader.size < StagingArea
               /\ loader'.size = loader.size + 1
               /\ mem' = Append(mem, file'[pos'])
               /\ pc' = "read"
          /\ PixelOnFullBuffer =>
               /\ mem' = mem /\ loader' = loader
               /\ pc' = "load_ret"
               /\ err'.code = ERR_INVALID_BITMAP_FILE]_vars

\* a load has failed on the pixel that followed the last one of a full buffer
\* of six
C23_Witness ==
    /\ pc = "load_ret" /\ Staged
    /\ err.code = ERR_INVALID_BITMAP_FILE
    /\ loader.size = StagingArea /\ Len(mem) = 6
    /\ pos = Len(file) /\ file[pos] \in {PXL_FILLED, PXL_EMPTY}

(***************************************************************************)
(* C24                                                                     *)
(***************************************************************************)
\* the steps of bmp_loader_load, in the order of its text
LoadSteps == <<"start", "height", "width", "alloc", "read">>

InLoad == \E k \in 1..Len(LoadSteps) : pc = LoadSteps[k]

\* the step after p; the return after the last one
StepAfter(p) ==
    IF p = "read" THEN "load_ret"
    ELSE LoadSteps[(CHOOSE k \in 1..Len(LoadSteps) : LoadSteps[k] = p) + 1]

LoadFails == InLoad /\ pc' = "load_ret" /\ err'.code # ERR_NONE

Releases == buf' # buf /\ buf # "none"

\* the buffer has an owner: the loader's staging bitmap or the query's bitmap
OwnedByLoader == loader.staging.data # NULL
OwnedByQuery == bmp.data # NULL

\* C25: in a successful shape query the grid buffer is released once, by the
\* bmp_dtor that follows the print of the result line, and the scanner, the
\* only reader of pixels, runs on the live buffer, owned by the query's bitmap
\* alone; once released the buffer is never read and never released again.
\* On every path of every query no buffer is released twice, and when the
\* query returns the buffer, if one was allocated, has been released.
C25_ReleasedOnceAfterResult ==
    /\ [](/\ buf # "freed twice"
          /\ pc = "done" => buf \in {"none", "freed"}
          /\ buf = "none" => ~OwnedByLoader /\ ~OwnedByQuery
          /\ buf = "live" => (OwnedByLoader /\ ~OwnedByQuery)
                                \/ (OwnedByQuery /\ ~OwnedByLoader)
          /\ pc \in {"scan", "print", "dtor"} =>
                buf = "live" /\ OwnedByQuery /\ cmd # "TEST"
          /\ pc = "dtor" => Len(out) = 1
          /\ buf = "freed" => pc = "done")
    /\ [][Releases =>
            /\ buf = "live" /\ buf' = "freed" /\ pc' = "done"
            /\ pc = "dtor" \/ pc = "load_ret"
            /\ pc = "dtor" <=> (cmd # "TEST" /\ err.code = ERR_NONE)
            /\ pc = "dtor" => out' = out /\ Len(out) = 1 /\ ret' = error_none]_vars
    /\ [][buf = "freed" => buf' = "freed" /\ pc' = "done"]_vars

\* a shape query has printed the line it found and returned, its buffer
\* released
C25_Witness ==
    /\ pc = "done" /\ cmd = "VLINE" /\ buf = "freed"
    /\ Len(out) = 1 /\ out[1] # "Not found"
    /\ ret = error_none /\ OwnedByQuery

(***************************************************************************)
(* C26                                                                     *)
(***************************************************************************)
\* the passes of the line scanner that has returned
RunPasses ==
    IF cmd = "HLINE" THEN line_find_longest_hline_passes(bmp, Scanner0)
    ELSE line_find_longest_vline_passes(bmp, Scanner0)

\* how many times the pixel (r, c) is read in the passes
TimesRead(passes, r, c) ==
    Cardinality({t \in (1..Len(passes)) \X (1..(W + H)) :
                    /\ t[2] <= Len(passes[t[1]].reads)
                    /\ passes[t[1]].reads[t[2]] = <<r, c>>})

\* how many of the lines found in the passes cover the pixel (r, c)
TimesCovered(passes, r, c) ==
    Cardinality({i \in 1..Len(passes) :
                    /\ ~shape_geometry_is_invalid(passes[i].temp)
                    /\ passes[i].temp.start.y <= r /\ r <= passes[i].temp.end.y
                    /\ passes[i].temp.start.x <= c /\ c <= passes[i].temp.end.x})

LineScanned == Scanned("HLINE") \/ Scanned("VLINE")

\* C26 as stated: in one run of longest_horizontal, and in one run of
\* longest_vertical, every pixel of the grid is read exactly once, and no
\* pixel is covered by more than one run-extension.
C26_EveryPixelReadOnce ==
    LineScanned =>
        LET passes == RunPasses
        IN  \A r \in Rows, c \in Cols :
                /\ TimesRead(passes, r, c) = 1
                /\ TimesCovered(passes, r, c) <= 1

\* C26: in one run of longest_horizontal, and in one run of longest_vertical,
\* every pixel is read at most twice and every filled pixel at most once; a
\* pixel read twice is the empty pixel that ended a run-extension and was
\* then taken as the start of the next search; a pixel that is not read lies
\* in the last max_length columns (rows) that the bound of the inner loop
\* leaves out, max_length being at most the length of the line returned; no
\* pixel is covered by more than one run-extension, and a filled pixel that
\* is read is covered by one.
C26_EveryPixelReadAtMostTwice ==
    LineScanned =>
        LET passes == RunPasses
            best == IF shape_geometry_is_invalid(shape) THEN 0 ELSE RunLen(shape)
        IN  \A r \in Rows, c \in Cols :
                /\ TimesRead(passes, r, c) <= 2
                /\ Filled(r, c) => TimesRead(passes, r, c) <= 1
                /\ TimesRead(passes, r, c) = 2 =>
                      IF cmd = "HLINE" THEN Filled(r, c - 1) ELSE Filled(r - 1, c)
                /\ TimesRead(passes, r, c) = 0 =>
                      IF cmd = "HLINE" THEN c >= W - best ELSE r >= H - best
                /\ TimesCovered(passes, r, c) <= 1
                /\ (Filled(r, c) /\ TimesRead(passes, r, c) = 1) =>
                      TimesCovered(passes, r, c) = 1

\* the horizontal scanner has returned from a grid of which it has read one
\* pixel twice and another not at all
C26_Witness ==
    /\ Scanned("HLINE")
    /\ \E r \in Rows, c \in Cols : TimesRead(RunPasses, r, c) = 2
    /\ \E r \in Rows, c \in Cols : TimesRead(RunPasses, r, c) = 0
    /\ \E r \in Rows, c \in Cols : Filled(r, c) /\ TimesRead(RunPasses, r, c) = 1

(***************************************************************************)
(* C27                                                                     *)
(***************************************************************************)
\* the uint32_t values a and b differ by less than 2^31
Below31(a, b) ==
    LET dh == U32Hi(a) - U32Hi(b)
        dl == U32Lo(a) - U32Lo(b)
    IN  IF dh >= 0 THEN dh <= 32767 \/ (dh = 32768 /\ dl < 0)
                   ELSE -dh <= 32767 \/ (-dh = 32768 /\ -dl < 0)

\* the length (side) size_func gives the shape of the command
CmpLength(s) ==
    CASE cmd = "HLINE" -> hline_length(s)
      [] cmd = "VLINE" -> vline_length(s)
      [] OTHER -> square_side_length(s)

\* the intended ordering, on the unsigned values: a is greater than b
IntendedGreater(a, b) ==
    \/ U32Gt(CmpLength(a), CmpLength(b))
    \/ CmpLength(a) = CmpLength(b) /\ U32Lt(a.start.y, b.start.y)
    \/ CmpLength(a) = CmpLength(b) /\ a.start.y = b.start.y
          /\ U32Lt(a.start.x, b.start.x)

CmpInRange ==
    /\ Below31(CmpLength(sc.max), CmpLength(shape))
    /\ Below31(sc.max.start.y, shape.start.y)
    /\ Below31(sc.max.start.x, shape.start.x)

\* C27: for all shapes whose lengths and start coordinates differ by less
\* than 2^31, the int shape_geometry_cmp returns, the unsigned 32-bit
\* difference converted to int, is positive exactly when lhs is greater in
\* the intended ordering (greater length; for equal length the smaller start
\* row; for equal row the smaller start column), negative exactly when rhs
\* is, and 0 exactly for shapes of equal length and equal start point.
C27_CmpHasSignOfOrdering ==
    (pc = "cmp_ret" /\ CmpInRange) =>
        /\ sc.i > 0 <=> IntendedGreater(sc.max, shape)
        /\ sc.i < 0 <=> IntendedGreater(shape, sc.max)
        /\ sc.i = 0 <=> /\ CmpLength(sc.max) = CmpLength(shape)
                        /\ sc.max.start = shape.start

\* the comparison has returned a negative int for a line of length 2 against
\* a line of length 2^31, and the lengths differ by 2^31 - 2
C27_Witness ==
    /\ pc = "cmp_ret" /\ CmpInRange
    /\ CmpLength(sc.max) = 2 /\ CmpLength(shape) = -2147483647 - 1
    /\ sc.i = -2147483646

(***************************************************************************)
(* C28                                                                     *)
(***************************************************************************)
\* the corners the next pass gives to square_found_valid_square
AnchorCandidates == square_body_candidates(bmp, sc, AnchorRow, AnchorCol)

\* C28: every side verification of largest_square starts its horizontal run
\* at a filled pixel (anchor column, candidate bottom row) and its vertical
\* run at a filled pixel (candidate right column, anchor row): the run
\* finders return a valid line from there, whose end is at or after its
\* start and is not the UINT32_MAX sentinel, so that the test 'run end >=
\* candidate corner' holds only when the run reaches the corner.
C28_SidesStartOnFilledPixels ==
    AtAnchor =>
        LET candidates == AnchorCandidates
        IN  \A k \in 1..Len(candidates) :
                LET bottom_right == candidates[k]
                    hline == line_find_hline(bmp,
                                 point_ctor(AnchorCol, bottom_right.y))
                    vline == line_find_vline(bmp,
                                 point_ctor(bottom_right.x, AnchorRow))
                IN  /\ Filled(bottom_right.y, AnchorCol)
                    /\ Filled(AnchorRow, bottom_right.x)
                    /\ ~shape_geometry_is_invalid(hline)
                    /\ ~shape_geometry_is_invalid(vline)
                    /\ hline.end.x # COORD_INVALID /\ hline.end.x \in Cols
                    /\ vline.end.y # COORD_INVALID /\ vline.end.y \in Rows
                    /\ square_found_valid_square(bmp,
                           point_ctor(AnchorCol, AnchorRow), bottom_right)
                         <=> /\ \A c \in AnchorCol..bottom_right.x :
                                    Filled(bottom_right.y, c)
                             /\ \A r \in AnchorRow..bottom_right.y :
                                    Filled(r, bottom_right.x)

\* the next pass verifies the candidate of side 3, refuses it, and verifies
\* candidates inside it
C28_Witness ==
    /\ AtAnchor
    /\ Len(AnchorCandidates) >= 3
    /\ AnchorCandidates[1] = point_ctor(AnchorCol + 2, AnchorRow + 2)
    /\ ~square_found_valid_square(bmp, point_ctor(AnchorCol, AnchorRow),
                                  AnchorCandidates[1])

(***************************************************************************)
(* C29                                                                     *)
(***************************************************************************)
\* C29: bounding the column loop of longest_horizontal by width - max_length
\* and the row loop of longest_vertical by height - max_length never changes
\* the result: for every grid the line the pruned scanner returns is the line
\* the scanner of the snapshot returns, which scans each row and each column
\* to its end.
C29_PrunedLineScannersKeepResult ==
    /\ Scanned("HLINE") =>
          shape = line_find_longest_hline_unpruned(
                      bmp, shape_geometry_invalid_ctor, 0, 0)
    /\ Scanned("VLINE") =>
          shape = line_find_longest_vline_unpruned(
                      bmp, shape_geometry_invalid_ctor, 0, 0)

\* the horizontal scanner has returned a line shorter than the width from a
\* grid of which the bound has left a filled pixel unread
C29_Witness ==
    /\ Scanned("HLINE")
    /\ ~shape_geometry_is_invalid(shape) /\ RunLen(shape) < W
    /\ \E r \in Rows, c \in Cols :
          Filled(r, c) /\ TimesRead(RunPasses, r, c) = 0

(***************************************************************************)
(* C30                                                                     *)
(***************************************************************************)
\* the length, or the side, of the shape the running scanner has recorded
RecordedLength ==
    CASE cmd = "HLINE" -> sc.max.end.x - sc.max.start.x + 1
      [] cmd = "VLINE" -> sc.max.end.y - sc.max.start.y + 1
      [] OTHER -> sc.max.end.x - sc.max.start.x + 1

\* the greatest length the grid allows the shape of the running scanner
LengthLimit ==
    CASE cmd = "HLINE" -> W
      [] cmd = "VLINE" -> H
      [] OTHER -> MaxSide

\* C30: throughout each scanner run the cached max_length is 0 while no shape
\* is recorded and otherwise is the length (or the side) of the recorded best
\* shape, which is at least 1; it never exceeds the width in
\* longest_horizontal, the height in longest_vertical, or min(width, height)
\* in largest_square, so the loop bounds width - max_length and
\* height - max_length are between 0 and the dimension and never wrap.
C30_MaxLengthIsLengthOfBest ==
    (pc \in {"scan", "print"} /\ cmd # "TEST") =>
        /\ shape_geometry_is_invalid(sc.max) <=> sc.max_length = 0
        /\ ~shape_geometry_is_invalid(sc.max) =>
              sc.max_length = RecordedLength /\ sc.max_length >= 1
        /\ sc.max_length \in 0..LengthLimit
        /\ cmd = "HLINE" => hline_col_bound(bmp, sc.max_length) \in 0..W
        /\ cmd = "VLINE" => vline_row_bound(bmp, sc.max_length) \in 0..H
        /\ pc = "print" => shape = sc.max

\* the horizontal scanner runs with a line recorded that fills a row of a
\* grid of several rows: the bound of its column loop is 0
C30_Witness ==
    /\ pc = "scan" /\ cmd = "HLINE"
    /\ sc.max_length = W /\ W >= 2
    /\ hline_col_bound(bmp, sc.max_length) = 0
    /\ sc.row + 1 < H

=============================================================================
